---- MODULE Spec2Model ----
(***************************************************************************)
(* The async worker threads of src/async/async_worker.c: N workers drain   *)
(* the shared op queue under opsq_lock, run each op in a transaction with  *)
(* a cached cursor, and take part in the flush protocol.                   *)
(*                                                                         *)
(* The producer side (op enqueue, flush initiator, server shutdown) is not *)
(* part of async_worker.c; it is modelled from the specification's         *)
(* section 6 (Enqueue, FlushStart, FlushDone, Shutdown).                   *)
(***************************************************************************)
EXTENDS Integers, Sequences, FiniteSets, TLC

(* ------------------------------ bounds --------------------------------- *)
MaxWorkers == 2     \* largest configured pool size (conn->async_workers)
MaxOps == 2         \* ops the producers submit
MaxFlushes == 2     \* flushes the initiator starts
MaxUri == 3         \* distinct table URIs ops may name
MaxConfig == 1      \* distinct cursor configuration strings
HashBuckets == 2    \* range of the format hashes

(* --------------------------- program constants ------------------------- *)
WT_NOTFOUND == -31803
WT_ERROR == -31802
EINVAL == 22

WT_ASYNCOP_FREE == "FREE"
WT_ASYNCOP_ENQUEUED == "ENQUEUED"
WT_ASYNCOP_WORKING == "WORKING"

WT_ASYNC_FLUSH_IN_PROGRESS == "IN_PROGRESS"
WT_ASYNC_FLUSHING == "FLUSHING"
WT_ASYNC_FLUSH_COMPLETE == "COMPLETE"

WT_AOP_INSERT == "INSERT"
WT_AOP_UPDATE == "UPDATE"
WT_AOP_REMOVE == "REMOVE"
WT_AOP_SEARCH == "SEARCH"
AOP_UNKNOWN == "UNKNOWN"    \* any optype value outside the four cases
OpTypes == {WT_AOP_INSERT, WT_AOP_UPDATE, WT_AOP_REMOVE, WT_AOP_SEARCH,
            AOP_UNKNOWN}

Workers == 1..MaxWorkers
Ops == 1..MaxOps
flush_op == 0               \* &async->flush_op, the sentinel
NoOp == -1                  \* the local op before it is assigned
Formats == [uri : 1..MaxUri, config : 1..MaxConfig]
WT_CURSTD_KEY_SET == "WT_CURSTD_KEY_SET"
WT_CURSTD_VALUE_SET == "WT_CURSTD_VALUE_SET"
NoFormat == [uri |-> 0, config |-> 0]   \* no format read, no cursor (NULL)

VARIABLES
    run,            \* F_ISSET(conn, WT_CONN_SERVER_RUN)
    async_workers,  \* conn->async_workers
    opsq_lock,      \* async->opsq_lock: 0 free, else the worker holding it
    opqh,           \* async->opqh, the shared queue
    cur_queue,      \* async->cur_queue
    opsq_flush,     \* async->opsq_flush, a set of flags
    flush_count,    \* async->flush_count
    state,          \* op->state of every op and of the sentinel
    pc,             \* each worker's position in __wt_async_worker
    locked,         \* each worker's local locked
    op,             \* each worker's local op
    cursorqh,       \* worker.cursorqh, MRU at head
    num_cursors,    \* worker.num_cursors
    session_cursors,\* cursors open in each worker's session
    nclosed,        \* c->close calls each worker has made
    txn_running,    \* a transaction is open in the worker's session
    ret,            \* __async_worker_op's ret (engine status of the op)
    cb_ret,         \* __async_worker_op's cb_ret
    has_cb,         \* op->cb != NULL && op->cb->notify != NULL of the op handled
    notified,       \* notify calls made for the op handled: sequence of statuses
    resolved,       \* how the handler ended the transaction of the op handled
    counted,        \* history: the workers counted in flush_count for this flush
    flags,          \* each op's WT_CURSTD_KEY_SET / WT_CURSTD_VALUE_SET flags
    format,         \* op->format of the op handled
    cursor,         \* __async_worker_op's cursor: the format it was opened with
    enqlog,         \* every append to opqh, in order
    deqlog,         \* every removal from opqh, in order
    nflush          \* flushes started so far

vars == <<run, async_workers, opsq_lock, opqh, cur_queue, opsq_flush,
          flush_count, state, pc, locked, op, cursorqh, num_cursors,
          session_cursors, nclosed, txn_running, ret, cb_ret, has_cb, notified,
          resolved, counted, flags, format, cursor, enqlog, deqlog, nflush>>

shared == <<opqh, cur_queue, opsq_flush, flush_count, counted, enqlog, deqlog>>
cache == <<cursorqh, num_cursors, session_cursors, nclosed>>
handler == <<txn_running, ret, cb_ret, has_cb, notified, resolved, format,
             cursor>>
env == <<run, async_workers, nflush>>

Active == 1..async_workers

Init ==
    /\ run = TRUE
    /\ async_workers \in 1..MaxWorkers
    /\ opsq_lock = 0
    /\ opqh = <<>>
    /\ cur_queue = 0
    /\ opsq_flush = {}
    /\ flush_count = 0
    /\ state = [o \in Ops \cup {flush_op} |-> WT_ASYNCOP_FREE]
    /\ flags = [o \in Ops |-> {}]
    /\ counted = {}
    /\ pc = [w \in Workers |-> IF w <= async_workers THEN "while" ELSE "none"]
    /\ locked = [w \in Workers |-> 0]
    /\ op = [w \in Workers |-> NoOp]
    /\ cursorqh = [w \in Workers |-> <<>>]
    /\ num_cursors = [w \in Workers |-> 0]
    /\ session_cursors = [w \in Workers |-> {}]
    /\ nclosed = [w \in Workers |-> 0]
    /\ txn_running = [w \in Workers |-> FALSE]
    /\ ret = [w \in Workers |-> 0]
    /\ cb_ret = [w \in Workers |-> 0]
    /\ has_cb = [w \in Workers |-> FALSE]
    /\ notified = [w \in Workers |-> <<>>]
    /\ resolved = [w \in Workers |-> "none"]
    /\ format = [w \in Workers |-> NoFormat]
    /\ cursor = [w \in Workers |-> NoFormat]
    /\ enqlog = <<>>
    /\ deqlog = <<>>
    /\ nflush = 0

(* ------------------- producer side (spec section 6) -------------------- *)

\* Enqueue of an op: set op.state = ENQUEUED, append to the queue under
\* queue_lock, increment cur_queue.  Ops are submitted in id order, while
\* the connection is open.
Enqueue ==
    /\ run
    /\ opsq_lock = 0
    /\ \E o \in Ops :
        /\ state[o] = WT_ASYNCOP_FREE
        /\ \A p \in Ops : p < o => p \in {enqlog[i] : i \in 1..Len(enqlog)}
        /\ o \notin {enqlog[i] : i \in 1..Len(enqlog)}
        /\ flags' = [flags EXCEPT ![o] = {WT_CURSTD_KEY_SET, WT_CURSTD_VALUE_SET}]
        /\ state' = [state EXCEPT ![o] = WT_ASYNCOP_ENQUEUED]
        /\ opqh' = Append(opqh, o)
        /\ enqlog' = Append(enqlog, o)
    /\ cur_queue' = cur_queue + 1
    /\ UNCHANGED <<opsq_flush, flush_count, counted, deqlog, opsq_lock, pc,
                   locked, op, cache, handler, env>>

\* Flush: set flush_flags = IN_PROGRESS and enqueue flush_op as any other op.
\* A second flush waits until the first has cleared.
FlushStart ==
    /\ run
    /\ opsq_lock = 0
    /\ nflush < MaxFlushes
    /\ opsq_flush = {}
    /\ opsq_flush' = {WT_ASYNC_FLUSH_IN_PROGRESS}
    /\ state' = [state EXCEPT ![flush_op] = WT_ASYNCOP_ENQUEUED]
    /\ opqh' = Append(opqh, flush_op)
    /\ enqlog' = Append(enqlog, flush_op)
    /\ cur_queue' = cur_queue + 1
    /\ nflush' = nflush + 1
    /\ UNCHANGED <<flush_count, counted, deqlog, flags, opsq_lock, pc, locked, op,
                   cache, handler, run, async_workers>>

\* The initiator observes COMPLETE, clears all flush flags and flush_count.
FlushDone ==
    /\ opsq_lock = 0
    /\ WT_ASYNC_FLUSH_COMPLETE \in opsq_flush
    /\ opsq_flush' = {}
    /\ flush_count' = 0
    /\ counted' = {}
    /\ UNCHANGED <<opqh, cur_queue, enqlog, deqlog, state, flags, opsq_lock, pc,
                   locked, op, cache, handler, env>>

\* The connection clears WT_CONN_SERVER_RUN.
Shutdown ==
    /\ run
    /\ run' = FALSE
    /\ UNCHANGED <<async_workers, nflush, shared, state, flags, opsq_lock, pc, locked,
                   op, cache, handler>>

(* ------------------------- __wt_async_worker --------------------------- *)

Goto(w, l) == pc' = [pc EXCEPT ![w] = l]

\* lines 201-202, 225-226 and 30-31: __wt_spin_lock; locked = 1
SpinLock(w, from, to) ==
    /\ pc[w] = from
    /\ opsq_lock = 0
    /\ opsq_lock' = w
    /\ locked' = [locked EXCEPT ![w] = 1]
    /\ Goto(w, to)
    /\ UNCHANGED <<shared, state, flags, op, cache, handler, env>>

\* lines 203-235: the flush test made with the lock held at the top of the loop
FlushCheck(w) ==
    /\ pc[w] = "flushchk"
    /\ IF WT_ASYNC_FLUSHING \in opsq_flush
       THEN /\ flush_count' = flush_count + 1
            /\ counted' = counted \cup {w}
            /\ IF flush_count + 1 = async_workers
               THEN \* lines 218-222: we're last
                    /\ opsq_flush' = (opsq_flush \cup {WT_ASYNC_FLUSH_COMPLETE})
                                        \ {WT_ASYNC_FLUSHING}
                    /\ opsq_lock' = 0
                    /\ locked' = [locked EXCEPT ![w] = 0]
                    /\ Goto(w, "signal")
               ELSE \* line 232: call __async_flush_wait
                    /\ Goto(w, "fw1_test")
                    /\ UNCHANGED <<opsq_flush, opsq_lock, locked>>
       ELSE /\ Goto(w, "deq")
            /\ UNCHANGED <<flush_count, counted, opsq_flush, opsq_lock, locked>>
    /\ UNCHANGED <<opqh, cur_queue, enqlog, deqlog, state, flags, op, cache, handler,
                   env>>

\* lines 223-224: WT_ERR(__wt_cond_signal(session, async->flush_cond))
CondSignal(w) ==
    /\ pc[w] = "signal"
    /\ \E ok \in BOOLEAN : Goto(w, IF ok THEN "relock" ELSE "err")
    /\ UNCHANGED <<shared, state, flags, opsq_lock, locked, op, cache, handler, env>>

\* the unlock of line 26 without line 27's *locked = 0
FlushWaitTest_keepflag(w, test, wait, back) ==
    /\ pc[w] = test
    /\ IF WT_ASYNC_FLUSHING \in opsq_flush
       THEN /\ opsq_lock' = 0
            /\ Goto(w, wait)
            /\ UNCHANGED locked
       ELSE /\ Goto(w, back)
            /\ UNCHANGED <<opsq_lock, locked>>
    /\ UNCHANGED <<shared, state, flags, op, cache, handler, env>>

\* line 25 (and the return at 33): the loop test of __async_flush_wait, made
\* with the lock held.  The positions fw1_* belong to the call at line 232,
\* which returns to line 240; fw2_* to the call at line 264, which returns
\* to line 269.
FlushWaitTest(w, test, wait, back) ==
    /\ pc[w] = test
    /\ IF WT_ASYNC_FLUSHING \in opsq_flush
       THEN \* lines 26-27
            /\ opsq_lock' = 0
            /\ locked' = [locked EXCEPT ![w] = 0]
            /\ Goto(w, wait)
       ELSE /\ Goto(w, back)
            /\ UNCHANGED <<opsq_lock, locked>>
    /\ UNCHANGED <<shared, state, flags, op, cache, handler, env>>

\* lines 28-29: WT_ERR_TIMEDOUT_OK(__wt_cond_wait(..., 10000)): the wait
\* ends by signal or by timeout, or fails
CondWait(w, wait, relock) ==
    /\ pc[w] = wait
    /\ \E ok \in BOOLEAN : Goto(w, IF ok THEN relock ELSE "err")
    /\ UNCHANGED <<shared, state, flags, opsq_lock, locked, op, cache, handler, env>>

\* the queue's tail taken for its head
STAILQ_FIRST_tail(q) == q[Len(q)]

\* line 240: STAILQ_FIRST
STAILQ_FIRST(q) == Head(q)

\* line 250: STAILQ_REMOVE_HEAD
STAILQ_REMOVE_HEAD_keep(q) == q

CurQueueDec_none(n) == n

\* line 252: --async->cur_queue
CurQueueDec(n) == n - 1

STAILQ_REMOVE_HEAD(q) == Tail(q)

\* lines 240-265: get the next op with the lock held.  The WT_ASSERTs of
\* lines 251, 253 and 256 are diagnostic only and guard nothing.
Dequeue(w) ==
    /\ pc[w] = "deq"
    /\ IF opqh = <<>>
       THEN \* lines 241-245
            /\ op' = [op EXCEPT ![w] = NoOp]
            /\ opsq_lock' = 0
            /\ locked' = [locked EXCEPT ![w] = 0]
            /\ Goto(w, "wait_for_work")
            /\ UNCHANGED <<shared, state, flags>>
       ELSE LET o == STAILQ_FIRST(opqh) IN
            /\ op' = [op EXCEPT ![w] = o]
            /\ opqh' = STAILQ_REMOVE_HEAD(opqh)
            /\ cur_queue' = CurQueueDec(cur_queue)
            /\ state' = [state EXCEPT ![o] = WT_ASYNCOP_WORKING]
            /\ deqlog' = Append(deqlog, o)
            /\ IF o = flush_op
               THEN \* lines 255-264
                    /\ opsq_flush' = opsq_flush \cup {WT_ASYNC_FLUSHING}
                    /\ flush_count' = 1
                    /\ counted' = {w}
                    /\ Goto(w, "fw2_test")
               ELSE /\ Goto(w, "unlock")
                    /\ UNCHANGED <<opsq_flush, flush_count, counted>>
            /\ UNCHANGED <<enqlog, flags, opsq_lock, locked>>
    /\ UNCHANGED <<cache, handler, env>>

\* the handler called for the sentinel too
Unlock_anyop(w) ==
    /\ pc[w] = "unlock"
    /\ opsq_lock' = 0
    /\ locked' = [locked EXCEPT ![w] = 0]
    /\ Goto(w, "op")
    /\ UNCHANGED <<shared, state, flags, op, cache, handler, env>>

\* the op performed with the lock still held
Unlock_keep(w) ==
    /\ pc[w] = "unlock"
    /\ Goto(w, IF op[w] # flush_op THEN "op" ELSE "wait_for_work")
    /\ UNCHANGED <<shared, state, flags, opsq_lock, locked, op, cache, handler,
                   env>>

\* lines 269-272: release the lock before performing the op
Unlock(w) ==
    /\ pc[w] = "unlock"
    /\ opsq_lock' = 0
    /\ locked' = [locked EXCEPT ![w] = 0]
    /\ Goto(w, IF op[w] # flush_op THEN "op" ELSE "wait_for_work")
    /\ UNCHANGED <<shared, state, flags, op, cache, handler, env>>

(* ------------------------- __async_worker_op --------------------------- *)

\* the format hashes, precomputed when the format is registered
Hash(s) == s % HashBuckets

\* lines 55-65: the first cache entry with the op's signature, 0 if none
CacheFind_miss(q, f) == 0

CacheFind(q, f) ==
    LET hits == {i \in 1..Len(q) : /\ Hash(f.config) = q[i].cfg_hash
                                   /\ Hash(f.uri) = q[i].uri_hash}
    IN  IF hits = {} THEN 0 ELSE CHOOSE i \in hits : \A j \in hits : i <= j

\* lines 73-76: the entry cached for a cursor opened for format f
CacheEntry(f) == [cfg_hash |-> Hash(f.config), uri_hash |-> Hash(f.uri), c |-> f]

\* lines 105-127: the status __async_worker_execop can return for an optype
ExecStatus(optype) ==
    CASE optype \in {WT_AOP_INSERT, WT_AOP_UPDATE} -> {0, WT_ERROR}
      [] optype \in {WT_AOP_REMOVE, WT_AOP_SEARCH} -> {0, WT_NOTFOUND, WT_ERROR}
      [] OTHER -> {EINVAL}

\* the commit condition without "|| ret == WT_NOTFOUND"
ShouldCommit_nonotfound(r, c) == r = 0 /\ c = 0

\* line 162: the commit condition
ShouldCommit(r, c) == (r = 0 \/ r = WT_NOTFOUND) /\ c = 0

\* lines 154-165: perform the op, invoke the callback, commit or roll back
OpExec(w) ==
    \E optype \in OpTypes : \E r \in ExecStatus(optype) : \E c \in {0, 1} :
        /\ ret' = [ret EXCEPT ![w] = r]
        /\ IF has_cb'[w]
           THEN /\ notified' = [notified EXCEPT ![w] = Append(@, r)]
                /\ cb_ret' = [cb_ret EXCEPT ![w] = c]
           ELSE /\ c = 0
                /\ UNCHANGED <<notified, cb_ret>>
        /\ resolved' = [resolved EXCEPT
               ![w] = IF ShouldCommit(ret'[w], cb_ret'[w]) THEN "commit"
                      ELSE "rollback"]
        /\ txn_running' = [txn_running EXCEPT ![w] = FALSE]

\* lines 148-165: __wt_txn_begin, __async_worker_cursor, then the op itself.
\* All of it works on the worker's own session and cache.  The op's format,
\* optype and callback were set by the submitter; they are drawn where the
\* handler reads the op.
OpRun(w) ==
    /\ pc[w] = "op"
    /\ \E cb \in BOOLEAN : has_cb' = [has_cb EXCEPT ![w] = cb]
    /\ \E begin_ok \in BOOLEAN, open_ok \in BOOLEAN, f \in Formats :
        LET hit == CacheFind(cursorqh[w], f) IN
        IF ~begin_ok
        THEN \* line 148: WT_RET
             /\ Goto(w, "wait_for_work")
             /\ UNCHANGED <<cache, txn_running, ret, cb_ret, notified, resolved,
                            format, cursor>>
        ELSE IF hit # 0
        THEN \* lines 62-63
             /\ format' = [format EXCEPT ![w] = f]
             /\ cursor' = [cursor EXCEPT ![w] = cursorqh[w][hit].c]
             /\ OpExec(w)
             /\ Goto(w, "op_release")
             /\ UNCHANGED cache
        ELSE IF open_ok
        THEN \* lines 73-79
             /\ format' = [format EXCEPT ![w] = f]
             /\ cursor' = [cursor EXCEPT ![w] = f]
             /\ cursorqh' = [cursorqh EXCEPT ![w] = <<CacheEntry(f)>> \o @]
             /\ num_cursors' = [num_cursors EXCEPT ![w] = @ + 1]
             /\ session_cursors' = [session_cursors EXCEPT ![w] = @ \cup {f}]
             /\ UNCHANGED nclosed
             /\ OpExec(w)
             /\ Goto(w, "op_release")
        ELSE \* line 70 or lines 71-72 fail; lines 81-82, WT_RET at line 150
             /\ format' = [format EXCEPT ![w] = f]
             /\ txn_running' = [txn_running EXCEPT ![w] = TRUE]
             /\ Goto(w, "wait_for_work")
             /\ UNCHANGED <<cache, ret, cb_ret, notified, resolved, cursor>>
    /\ UNCHANGED <<shared, state, flags, opsq_lock, locked, op, env>>

\* lines 170-171: ret = 0, then release the op back to the free pool
OpRelease(w) ==
    /\ pc[w] = "op_release"
    /\ ret' = [ret EXCEPT ![w] = 0]
    /\ state' = [state EXCEPT ![op[w]] = WT_ASYNCOP_FREE]
    /\ Goto(w, "op_clear")
    /\ UNCHANGED <<shared, flags, opsq_lock, locked, op, cache, txn_running,
                   cb_ret, has_cb, notified, resolved, format, cursor, env>>

\* lines 172-174: F_CLR of the op's key-set and value-set flags, reset of the
\* cached cursor, return
OpClear(w) ==
    /\ pc[w] = "op_clear"
    /\ flags' = [flags EXCEPT ![op[w]] =
                     @ \ {WT_CURSTD_KEY_SET, WT_CURSTD_VALUE_SET}]
    /\ Goto(w, "wait_for_work")
    /\ UNCHANGED <<shared, state, opsq_lock, locked, op, cache, handler, env>>

\* line 200, and lines 274-283 before it: wait_for_work, __wt_yield, then
\* while (F_ISSET(conn, WT_CONN_SERVER_RUN)).  The handler's frame is gone
\* and op is dead until line 240 assigns it.
WhileRun(w) ==
    /\ pc[w] \in {"while", "wait_for_work"}
    /\ Goto(w, IF run THEN "lock" ELSE "cleanup")
    /\ op' = [op EXCEPT ![w] = NoOp]
    /\ ret' = [ret EXCEPT ![w] = 0]
    /\ cb_ret' = [cb_ret EXCEPT ![w] = 0]
    /\ has_cb' = [has_cb EXCEPT ![w] = FALSE]
    /\ notified' = [notified EXCEPT ![w] = <<>>]
    /\ resolved' = [resolved EXCEPT ![w] = "none"]
    /\ format' = [format EXCEPT ![w] = NoFormat]
    /\ cursor' = [cursor EXCEPT ![w] = NoFormat]
    /\ UNCHANGED <<shared, state, flags, opsq_lock, locked, cache, txn_running, env>>

\* lines 286-288: the err label
Err(w) ==
    /\ pc[w] = "err"
    /\ IF locked[w] = 1
       THEN /\ opsq_lock' = 0
            /\ locked' = [locked EXCEPT ![w] = 0]
       ELSE UNCHANGED <<opsq_lock, locked>>
    /\ Goto(w, "cleanup")
    /\ UNCHANGED <<shared, state, flags, op, cache, handler, env>>

\* the walk started at the second entry
CleanupWalk_skipfirst(q) == [i \in 1..(Len(q) - 1) |-> q[i + 1].c]

\* lines 294-300: the cursors the cleanup loop visits, from STAILQ_FIRST
\* along STAILQ_NEXT
CleanupWalk(q) == [i \in 1..Len(q) |-> q[i].c]

\* lines 294-301: close the cached cursors and free the entries
Cleanup(w) ==
    LET walk == CleanupWalk(cursorqh[w]) IN
    /\ pc[w] = "cleanup"
    /\ session_cursors' = [session_cursors EXCEPT
           ![w] = @ \ {walk[i] : i \in 1..Len(walk)}]
    /\ nclosed' = [nclosed EXCEPT ![w] = @ + Len(walk)]
    /\ cursorqh' = [cursorqh EXCEPT ![w] = <<>>]
    /\ Goto(w, "done")
    /\ UNCHANGED <<shared, state, flags, opsq_lock, locked, op, num_cursors, handler,
                   env>>

Worker(w) ==
    \/ WhileRun(w)
    \/ SpinLock(w, "lock", "flushchk")
    \/ FlushCheck(w)
    \/ CondSignal(w)
    \/ SpinLock(w, "relock", "deq")
    \/ FlushWaitTest(w, "fw1_test", "fw1_wait", "deq")
    \/ CondWait(w, "fw1_wait", "fw1_lock")
    \/ SpinLock(w, "fw1_lock", "fw1_test")
    \/ Dequeue(w)
    \/ FlushWaitTest(w, "fw2_test", "fw2_wait", "unlock")
    \/ CondWait(w, "fw2_wait", "fw2_lock")
    \/ SpinLock(w, "fw2_lock", "fw2_test")
    \/ Unlock(w)
    \/ OpRun(w)
    \/ OpRelease(w)
    \/ OpClear(w)
    \/ Err(w)
    \/ Cleanup(w)

Next ==
    \/ Enqueue
    \/ FlushStart
    \/ FlushDone
    \/ Shutdown
    \/ \E w \in Workers : Worker(w)

Spec == Init /\ [][Next]_vars

\* Every worker thread keeps being scheduled, and a thread spinning on
\* opsq_lock gets it when it is free again and again.
FairSpec == Spec /\ \A w \in Workers : SF_vars(Worker(w))

(* ------------------------------ claims --------------------------------- *)

InProgress == WT_ASYNC_FLUSH_IN_PROGRESS \in opsq_flush
Flushing == WT_ASYNC_FLUSHING \in opsq_flush
Complete == WT_ASYNC_FLUSH_COMPLETE \in opsq_flush

\* the position in enqlog of the sentinel enqueued last, 0 if none
LastSentinel ==
    LET at == {i \in 1..Len(enqlog) : enqlog[i] = flush_op}
    IN  IF at = {} THEN 0 ELSE CHOOSE i \in at : \A j \in at : j <= i

\* the handler is at work on op o in some worker
InHandler(o) == \E w \in Active : op[w] = o /\ pc[w] \in {"unlock", "op", "op_release"}

\* a lock or condition primitive failed in some worker, or the server stopped
Stopped == ~run \/ \E w \in Active : pc[w] \in {"err", "cleanup", "done"}

InFlushWait(w) == pc[w] \in {"fw1_test", "fw1_wait", "fw1_lock",
                            "fw2_test", "fw2_wait", "fw2_lock"}

\* C1: while FLUSH_COMPLETE is set, every op enqueued before the flush
\* sentinel is in state FREE.
C1_FlushedOpsFree ==
    Complete => \A i \in 1..LastSentinel :
                    enqlog[i] \in Ops => state[enqlog[i]] = WT_ASYNCOP_FREE

\* C2: no step removes a non-sentinel op from the queue while FLUSHING is set.
C2_NoDequeueWhileFlushing ==
    [][(deqlog' # deqlog /\ deqlog'[Len(deqlog')] \in Ops) => ~Flushing]_vars

\* C3: for every pool size, unless the server stops or a primitive fails, a
\* flush in progress reaches FLUSH_COMPLETE and the worker that popped the
\* sentinel leaves the flush wait.
C3_FlushCompletes ==
    /\ InProgress ~> (Complete \/ Stopped)
    /\ \A w \in Workers :
          (pc[w] \in {"fw2_test", "fw2_wait", "fw2_lock"})
              ~> (pc[w] = "unlock" \/ Stopped)

\* C4: a second flush, started after the first was completed and cleared,
\* reaches FLUSH_COMPLETE too, unless the server stops or a primitive fails.
C4_SecondFlushCompletes ==
    (nflush >= 2 /\ InProgress) ~> (Complete \/ Stopped)

\* C5: when the handler has run the executor, the transaction is committed
\* if and only if the status is 0 or WT_NOTFOUND and the callback returned 0
\* (no callback counts as 0), and is rolled back otherwise.
C5_CommitLaw ==
    \A w \in Workers : pc[w] = "op_release" =>
        /\ ~has_cb[w] => cb_ret[w] = 0
        /\ IF ret[w] \in {0, WT_NOTFOUND} /\ cb_ret[w] = 0
           THEN resolved[w] = "commit"
           ELSE resolved[w] = "rollback"

\* one worker has committed a WT_NOTFOUND op while the other has rolled
\* back a successful op whose callback returned non-zero
C5_Witness ==
    \E w, v \in Workers :
        /\ pc[w] = "op_release" /\ ret[w] = WT_NOTFOUND /\ resolved[w] = "commit"
        /\ pc[v] = "op_release" /\ ret[v] = 0 /\ cb_ret[v] = 1
        /\ resolved[v] = "rollback"

\* C6: once the handler has returned, and when the worker terminates, no
\* transaction is open in the worker's session.
C6_TxnPaired ==
    \A w \in Workers :
        pc[w] \in {"wait_for_work", "cleanup", "done"} => ~txn_running[w]

\* C7: an op in state WORKING is being handled by a worker; the handler
\* never returns leaving its op in state WORKING.
C7_Recycled ==
    \A o \in Ops : state[o] = WT_ASYNCOP_WORKING => InHandler(o)

\* C8: when the handler returns for an op with a callback it has made
\* exactly one notify call, with the op's engine status.
C8_NotifiedOnce ==
    \A w \in Workers : has_cb[w] =>
        /\ pc[w] = "op_release" => notified[w] = <<ret[w]>>
        /\ (pc[w] = "wait_for_work" /\ op[w] \in Ops) => Len(notified[w]) = 1

\* C9: the ops removed from the queue, in removal order, followed by the
\* ops still queued, are the ops appended, in append order.
C9_FifoDequeue == deqlog \o opqh = enqlog

\* two workers hold the two ops they removed, and the sentinel appended
\* after them is still queued
C9_Witness ==
    /\ op[1] \in Ops /\ op[2] \in Ops /\ op[1] # op[2]
    /\ Len(deqlog) >= 2 /\ opqh = <<flush_op>>

\* C10: once the server-run flag is clear every worker terminates.
C10_ShutdownTerminates ==
    (~run) ~> (\A w \in Active : pc[w] = "done")

\* the cursors a worker's cache holds
Cached(w) == {cursorqh[w][i].c : i \in 1..Len(cursorqh[w])}

\* C11: until a worker leaves its loop no cursor of its cache is closed;
\* when it has terminated, by the loop test or by the err label, its cache
\* is empty, no cursor is open in its session, and it made one close call
\* for each cursor it opened.
C11_NoCursorLeak ==
    \A w \in Workers :
        /\ pc[w] # "done" =>
              /\ nclosed[w] = 0
              /\ session_cursors[w] = Cached(w)
              /\ Cardinality(session_cursors[w]) = num_cursors[w]
        /\ pc[w] = "done" =>
              /\ cursorqh[w] = <<>>
              /\ session_cursors[w] = {}
              /\ nclosed[w] = num_cursors[w]

\* a worker that left its loop by the err label, the server still running,
\* has closed the two cursors of its cache
C11_Witness ==
    \E w \in Workers : pc[w] = "done" /\ run /\ nclosed[w] = 2

\* C12: the cursor the handler uses for an op was opened with the op's
\* format, its URI string and its config string.
C12_CursorOfFormat ==
    \A w \in Workers : pc[w] = "op_release" => cursor[w] = format[w]

\* C13: the worker writes no field of an op that is FREE: no step clears a
\* key-set or value-set flag of an op whose state is FREE.
C13_NoWriteAfterFree ==
    [][\A o \in Ops : state[o] = WT_ASYNCOP_FREE => flags[o] \subseteq flags'[o]]_vars

\* the pcs at which a worker's op is one it removed and has not let go of
HoldsOp(w) == pc[w] \in {"fw2_test", "fw2_wait", "fw2_lock", "unlock", "op",
                         "op_release", "op_clear"}

Removed(o) == {i \in 1..Len(deqlog) : deqlog[i] = o}

\* C14: each enqueued op is removed from the queue at most once, by one
\* worker, and is ENQUEUED when it is removed; its state changes only
\* FREE -> ENQUEUED -> WORKING -> FREE; no two workers hold the same op, and a
\* worker comes to hold an op only in the step that removes it.
C14_ExactlyOnce ==
    /\ [](\A o \in Ops :
            /\ Cardinality(Removed(o)) <= 1
            /\ Cardinality({w \in Workers : op[w] = o}) <= 1
            /\ \A w \in Workers : op[w] = o /\ pc[w] \in {"unlock", "op", "op_release"}
                                     => state[o] = WT_ASYNCOP_WORKING)
    /\ [][\A o \in Ops :
            /\ state'[o] # state[o] =>
                  <<state[o], state'[o]>> \in
                      {<<WT_ASYNCOP_FREE, WT_ASYNCOP_ENQUEUED>>,
                       <<WT_ASYNCOP_ENQUEUED, WT_ASYNCOP_WORKING>>,
                       <<WT_ASYNCOP_WORKING, WT_ASYNCOP_FREE>>}
            /\ Removed(o)' # Removed(o) =>
                  /\ state[o] = WT_ASYNCOP_ENQUEUED
                  /\ state'[o] = WT_ASYNCOP_WORKING
            /\ \A w \in Workers :
                  /\ op'[w] = o /\ op[w] # o => Removed(o)' # Removed(o)
                  /\ state[o] = WT_ASYNCOP_WORKING /\ state'[o] = WT_ASYNCOP_FREE
                        /\ pc'[w] # pc[w] => op[w] = o]_vars

\* two workers have each removed one op and each released its own
C14_Witness ==
    /\ pc[1] = "op_clear" /\ pc[2] = "op_clear"
    /\ op[1] # op[2]
    /\ \A o \in Ops : state[o] = WT_ASYNCOP_FREE /\ Cardinality(Removed(o)) = 1

\* C15: cur_queue is never negative and is the number of ops on the queue
\* whenever the lock is free, so it is 0 once the queue is drained; it is
\* positive in every step that removes the head.
C15_QueueCounter ==
    /\ [](/\ cur_queue >= 0
          /\ opsq_lock = 0 => cur_queue = Len(opqh)
          /\ opsq_lock = 0 /\ opqh = <<>> => cur_queue = 0)
    /\ [][deqlog' # deqlog => cur_queue > 0 /\ cur_queue' = Len(opqh')]_vars

\* two ops and a sentinel were queued and removed; the lock is free
C15_Witness ==
    /\ opsq_lock = 0
    /\ opqh = <<>>
    /\ cur_queue = 0
    /\ Len(deqlog) >= 3

\* the positions inside a condition wait, a condition signal, the op handler
\* (transaction, cursor and callback calls) and the cursor closes of cleanup
Unlocked == {"signal", "fw1_wait", "fw2_wait", "op", "op_release", "op_clear",
             "cleanup"}

\* the positions whose step reads the queue, cur_queue, the flush flags or
\* flush_count
ReadsShared == {"flushchk", "fw1_test", "fw2_test", "deq"}

\* C16: a worker inside a condition wait or signal, the op handler or a
\* cursor call does not hold the lock; a worker reads the queue, cur_queue,
\* the flush flags and flush_count, and a worker's step changes them, only
\* with the lock held by that worker.
C16_LockDiscipline ==
    /\ [](\A w \in Workers :
            /\ pc[w] \in Unlocked => opsq_lock # w /\ locked[w] = 0
            /\ pc[w] \in ReadsShared => opsq_lock = w)
    /\ [][\A w \in Workers :
            pc'[w] # pc[w]
              /\ <<opqh, cur_queue, opsq_flush, flush_count>>' #
                     <<opqh, cur_queue, opsq_flush, flush_count>>
              => opsq_lock = w]_vars

\* the worker that popped the sentinel is in its condition wait, the last
\* worker has set FLUSH_COMPLETE and is about to signal; the lock is free
C16_Witness ==
    /\ pc[1] = "fw2_wait"
    /\ pc[2] = "signal"
    /\ Complete
    /\ opsq_lock = 0

\* C17: in every flush each worker of the pool is counted in flush_count:
\* while FLUSHING is set, every worker comes to be counted, unless the server
\* stops or a primitive fails.
C17_EveryWorkerCounted ==
    \A w \in Workers :
        (Flushing /\ w \in Active) ~> (w \in counted \/ ~Flushing \/ Stopped)

\* C18: FLUSHING becomes set only in the step in which a worker removes the
\* sentinel from the queue, and IN_PROGRESS is set in that step; a worker is
\* never in the op handler with the sentinel, and while it holds the sentinel
\* its transaction, cursor cache, status and notifications do not change.
C18_Sentinel ==
    /\ [](\A w \in Workers :
            pc[w] \in {"op", "op_release", "op_clear"} => op[w] \in Ops)
    /\ [][Flushing' /\ ~Flushing =>
            /\ InProgress /\ InProgress'
            /\ opqh # <<>> /\ Head(opqh) = flush_op /\ opqh' = Tail(opqh)
            /\ \E w \in Workers :
                  opsq_lock = w /\ op'[w] = flush_op /\ pc'[w] # pc[w]]_vars
    /\ [][\A w \in Workers :
            HoldsOp(w) /\ op[w] = flush_op =>
                /\ txn_running'[w] = txn_running[w]
                /\ cursorqh'[w] = cursorqh[w]
                /\ session_cursors'[w] = session_cursors[w]
                /\ notified'[w] = notified[w]
                /\ ret'[w] = ret[w]]_vars

\* the worker that popped the sentinel has left the flush wait and is back
\* at wait_for_work
C18_Witness ==
    \E w \in Workers :
        /\ op[w] = flush_op
        /\ pc[w] = "wait_for_work"
        /\ Complete

Signature(e) == <<e.cfg_hash, e.uri_hash>>

C20_ErrorPathUnlock ==
    \A w \in Workers :
        /\ locked[w] = 1 <=> opsq_lock = w
        /\ pc[w] \in {"cleanup", "done"} => opsq_lock # w /\ locked[w] = 0
        /\ (/\ w \in Active
            /\ pc[w] \in {"lock", "relock", "fw1_lock", "fw2_lock"}
            /\ \A v \in Active \ {w} : pc[v] = "done") => opsq_lock = 0

\* a worker that popped the sentinel has failed in its condition wait and
\* terminated while the server runs; another worker holds the lock and has
\* removed an op
C20_Witness ==
    \E w, v \in Workers :
        /\ run
        /\ pc[w] = "done"
        /\ op[w] = flush_op
        /\ pc[v] = "unlock"
        /\ opsq_lock = v
        /\ op[v] \in Ops

TypeOK ==
    /\ run \in BOOLEAN
    /\ async_workers \in 1..MaxWorkers
    /\ opsq_lock \in {0} \cup Workers
    /\ cur_queue \in Int
    /\ opsq_flush \subseteq {WT_ASYNC_FLUSH_IN_PROGRESS, WT_ASYNC_FLUSHING,
                            WT_ASYNC_FLUSH_COMPLETE}
    /\ flush_count \in Nat
    /\ \A o \in Ops \cup {flush_op} :
          state[o] \in {WT_ASYNCOP_FREE, WT_ASYNCOP_ENQUEUED, WT_ASYNCOP_WORKING}
    /\ \A w \in Workers : op[w] \in Ops \cup {flush_op, NoOp}

====
